---- MODULE Spec2Model ----
(***************************************************************************)
(* A model of nextaction.py: the main loop that keeps the "next action"    *)
(* label on the actionable items of every serial / parallel Todoist        *)
(* project.  One cycle is: sync, one pass over the projects (one visit per *)
(* item), commit of the queued item updates, sleep.                        *)
(***************************************************************************)
EXTENDS Naturals, Sequences, FiniteSets

\* ------------------------------------------------------------------ bounds
\* Items of a tree: the first family of initial states.
TreeItems == 3
\* Items of the two projects: the second family of initial states.
ListItems == 2
\* child_order of these ranges over 1..MaxOrder.
MaxOrder == 2
\* Cycles of the main loop that are explored.
MaxCycles == 3

\* ------------------------------------------------------- program constants
DefaultHideFuture == 7
SecondsPerDay == 86400

\* ----------------------------------------------------------------- strings
\* A string is a sequence of one-character strings.
NoParent == 0
NoDue == <<>>

Inbox == <<"I", "n", "b", "o", "x">>

IsSpace(c) == c = " "

RECURSIVE lstrip(_)
lstrip(s) == IF s # <<>> /\ IsSpace(Head(s)) THEN lstrip(Tail(s)) ELSE s

RECURSIVE rstrip(_)
rstrip(s) ==
    IF s # <<>> /\ IsSpace(s[Len(s)]) THEN rstrip(SubSeq(s, 1, Len(s) - 1)) ELSE s

\* str.strip()
strip(s) == rstrip(lstrip(s))

\* str.startswith(c) for a one-character prefix
startswith(s, c) == s # <<>> /\ Head(s) = c

\* name[-1] raises IndexError on the empty string
IndexError(s) == s = <<>>
LastChar(s) == s[Len(s)]

VARIABLES
    args,         \* the parsed command line (immutable)
    projects,     \* api.projects.all(): the project names, in store order
    data,         \* the fields of every item that this program only reads
    store,        \* per item: the label is in the item's labels on the server
    labels,       \* per item: the label is in item['labels'] in memory
    queue,        \* api.queue: the ids of the queued item updates
    pc,           \* position in the main loop
    proj,         \* index of the project of the for loop
    items,        \* the sorted, filtered items of that project
    idx,          \* index in items of the next item to visit
    first_found,  \* first_found of the current project
    project_type, \* project_type of the current project
    cycle,        \* iterations of the main loop started so far
    synced,       \* outcome of api.sync() in this iteration
    visited,      \* items visited in this iteration
    commits,      \* api.commit() calls in this iteration
    passes        \* iterations that ended with the queue sent or found empty

vars == <<args, projects, data, store, labels, queue, pc, proj, items, idx,
          first_found, project_type, cycle, synced, visited, commits, passes>>

Items == DOMAIN data

\* ------------------------------------------------------------- classifiers
\* the suffix test with the serial suffix tried first
get_type_serial_first(name) ==
    IF LastChar(name) = args.serial_suffix THEN "serial"
    ELSE IF LastChar(name) = args.parallel_suffix THEN "parallel"
    ELSE "none"

\* lines 72-75 and 80-83: the suffix test, parallel first
get_type(name) ==
    IF LastChar(name) = args.parallel_suffix THEN "parallel"
    ELSE IF LastChar(name) = args.serial_suffix THEN "serial"
    ELSE "none"

\* get_project_type: "none" stands for Python's None
get_project_type(project_name) ==
    LET name == strip(project_name) IN
    IF name = Inbox THEN args.inbox ELSE get_type(name)

get_project_type_raises(project_name) ==
    LET name == strip(project_name) IN name # Inbox /\ IndexError(name)

get_item_type(content) == get_type(strip(content))

get_item_type_raises(content) == IndexError(strip(content))

\* lines 122-125: the due date is hide_future days or more ahead
future_hidden(i) ==
    /\ args.hide_future > 0
    /\ data[i].due # NoDue
    /\ data[i].due[1] * SecondsPerDay >= args.hide_future * SecondsPerDay

\* ------------------------------------------------------ add / remove label
\* st is [labels, queue]; api.items.update appends one command to api.queue
add_label(st, i) ==
    IF ~st.labels[i]
    THEN [labels |-> [st.labels EXCEPT ![i] = TRUE], queue |-> Append(st.queue, i)]
    ELSE st

remove_label(st, i) ==
    IF st.labels[i]
    THEN [labels |-> [st.labels EXCEPT ![i] = FALSE], queue |-> Append(st.queue, i)]
    ELSE st

\* --------------------------------------------------------------- the items
\* sorted(..., key=child_order) is stable: ties keep the store order
SortKey(i) == data[i].child_order * (Cardinality(Items) + 1) + i

RECURSIVE SortedSeq(_)
SortedSeq(S) ==
    IF S = {} THEN <<>>
    ELSE LET m == CHOOSE x \in S : \A y \in S : SortKey(x) <= SortKey(y)
         IN <<m>> \o SortedSeq(S \ {m})

IsComment(i) == startswith(data[i].content, "*")

\* project_items without the filter of line 115
project_items_unfiltered(p) == SortedSeq({i \in Items : data[i].project_id = p})

\* lines 112-115
project_items(p) ==
    SelectSeq(SortedSeq({i \in Items : data[i].project_id = p}),
              LAMBDA i : ~IsComment(i))

\* line 140
child_items(its, i) == SelectSeq(its, LAMBDA c : data[c].parent_id = i)

\* root_rule with first_found never consulted
root_rule_every_serial_root(st, i, ptype, ff) ==
    IF data[i].parent_id = NoParent /\ ptype \in {"serial", "parallel"}
    THEN add_label(st, i)
    ELSE st

\* root_rule without the branch of line 136
root_rule_serial_only(st, i, ptype, ff) ==
    IF data[i].parent_id = NoParent /\ ptype = "serial"
    THEN IF ~ff THEN add_label(st, i) ELSE remove_label(st, i)
    ELSE st

\* lines 129-137
root_rule(st, i, ptype, ff) ==
    IF data[i].parent_id = NoParent
    THEN IF ptype = "serial"
         THEN IF ~ff THEN add_label(st, i) ELSE remove_label(st, i)
         ELSE IF ptype = "parallel" THEN add_label(st, i) ELSE st
    ELSE st

root_first_found(i, ptype, ff) ==
    IF data[i].parent_id = NoParent /\ ptype = "serial" THEN TRUE ELSE ff

\* lines 148-154 without the test of child_item['checked']
RECURSIVE serial_children_unchecked(_, _, _, _)
serial_children_unchecked(st, ch, k, cff) ==
    IF k > Len(ch) THEN st
    ELSE IF ~cff
         THEN serial_children_unchecked(add_label(st, ch[k]), ch, k + 1, TRUE)
         ELSE serial_children_unchecked(remove_label(st, ch[k]), ch, k + 1, cff)

\* lines 148-154: k is the position in the children, cff is child_first_found
RECURSIVE serial_children(_, _, _, _)
serial_children(st, ch, k, cff) ==
    IF k > Len(ch) THEN st
    ELSE IF data[ch[k]].checked = 0 /\ ~cff
         THEN serial_children(add_label(st, ch[k]), ch, k + 1, TRUE)
         ELSE serial_children(remove_label(st, ch[k]), ch, k + 1, cff)

\* lines 157-158
RECURSIVE parallel_children(_, _, _)
parallel_children(st, ch, k) ==
    IF k > Len(ch) THEN st
    ELSE parallel_children(add_label(st, ch[k]), ch, k + 1)

\* lines 163-164 left out: the children keep what they hold
unlabel_children_skipped(st, ch, k) == st

\* lines 163-164
RECURSIVE unlabel_children(_, _, _)
unlabel_children(st, ch, k) ==
    IF k > Len(ch) THEN st
    ELSE unlabel_children(remove_label(st, ch[k]), ch, k + 1)

\* lines 139-164 with a parent of no type handing the label to its children
\* as a parallel one does
parent_rule_untyped_cascade(st, its, i) ==
    LET item_type == get_item_type(data[i].content)
        ch == child_items(its, i)
    IN  IF item_type # "none" \/ Len(ch) > 0
        THEN IF st.labels[i]
             THEN LET down == IF item_type = "serial"
                                 THEN serial_children(st, ch, 1, FALSE)
                              ELSE parallel_children(st, ch, 1)
                  IN remove_label(down, i)
             ELSE unlabel_children(st, ch, 1)
        ELSE st

\* lines 139-164
parent_rule(st, its, i) ==
    LET item_type == get_item_type(data[i].content)
        ch == child_items(its, i)
    IN  IF item_type # "none" \/ Len(ch) > 0
        THEN IF st.labels[i]
             THEN LET down == IF item_type = "serial"
                                 THEN serial_children(st, ch, 1, FALSE)
                              ELSE IF item_type = "parallel"
                                 THEN parallel_children(st, ch, 1)
                              ELSE st
                  IN remove_label(down, i)
             ELSE unlabel_children(st, ch, 1)
        ELSE st

\* lines 119-164 with a hidden item taking the label from its children too
visit_hidden_with_children(st, its, i, ptype, ff) ==
    IF future_hidden(i)
    THEN unlabel_children(remove_label(st, i), child_items(its, i), 1)
    ELSE parent_rule(root_rule(st, i, ptype, ff), its, i)

\* lines 119-164: the body of the loop over the items, for item i
visit(st, its, i, ptype, ff) ==
    IF future_hidden(i) THEN remove_label(st, i)
    ELSE parent_rule(root_rule(st, i, ptype, ff), its, i)

visit_first_found(i, ptype, ff) ==
    IF future_hidden(i) THEN ff ELSE root_first_found(i, ptype, ff)

visit_raises(i) == ~future_hidden(i) /\ get_item_type_raises(data[i].content)

Range(q) == {q[k] : k \in DOMAIN q}

\* ------------------------------------------------------------ initial states
\* The state when the main loop is entered: the first api.sync() of line 54
\* has returned, the label exists, nothing is queued.  Three families of
\* inputs: trees of TreeItems items in one managed project (one cycle),
\* ListItems items spread over two projects (several cycles), and one item in
\* one project under every name, text and command line (one cycle).
DefaultArgs ==
    [inbox |-> "parallel", parallel_suffix |-> ".", serial_suffix |-> "_",
     hide_future |-> DefaultHideFuture, onetime |-> FALSE]

InitLoop ==
    /\ queue = <<>>
    /\ pc = "sync"
    /\ proj = 0
    /\ items = <<>>
    /\ idx = 0
    /\ first_found = FALSE
    /\ project_type = "none"
    /\ cycle = 1
    /\ synced = "none"
    /\ visited = {}
    /\ commits = 0
    /\ passes = 0

Permutations(n) ==
    {f \in [1..n -> 1..n] : \A i, j \in 1..n : i # j => f[i] # f[j]}

\* A parent is in the project of its child and comes before it in the store.
Forests(n, project) ==
    {f \in [1..n -> 0..n] :
        \A i \in 1..n : f[i] < i /\ (f[i] # NoParent => project[f[i]] = project[i])}

\* Siblings have distinct child_order.
SiblingOrders(n, project, parent) ==
    {o \in [1..n -> 1..MaxOrder] :
        \A i, j \in 1..n :
            i # j /\ project[i] = project[j] /\ parent[i] = parent[j] => o[i] # o[j]}

\* ---- trees
TreeNames == { <<"a", "_">>, <<"a", ".">> }

\* The text and the due date of an item.  An item that is hidden has its text
\* read only by the filter of line 115, so one text stands for all.
TreeKinds ==
    {[content |-> c, due |-> NoDue] :
        c \in { <<"a">>, <<"a", ".">>, <<"a", "_">>, <<"*", "a">> }}
    \cup {[content |-> <<"a">>, due |-> <<30>>]}

\* checked is read by line 150 only, of the children of a serial item.
TreeChecked(parent, kind) ==
    {c \in [1..TreeItems -> {0, 1}] :
        \A i \in 1..TreeItems :
            c[i] = 1 => /\ parent[i] # NoParent
                        /\ kind[parent[i]].content = <<"a", "_">>}

InitTrees(onetime) ==
    /\ args = [DefaultArgs EXCEPT !.onetime = onetime]
    /\ projects \in {<<n>> : n \in TreeNames}
    /\ \E parent \in Forests(TreeItems, [i \in 1..TreeItems |-> 1]) :
       \E order \in Permutations(TreeItems) :
       \E kind \in [1..TreeItems -> TreeKinds] :
       \E checked \in TreeChecked(parent, kind) :
          data = [i \in 1..TreeItems |->
                    [project_id |-> 1, parent_id |-> parent[i],
                     child_order |-> order[i], content |-> kind[i].content,
                     checked |-> checked[i], due |-> kind[i].due]]
    /\ store \in [1..TreeItems -> BOOLEAN]
    /\ labels = store
    /\ InitLoop

\* the trees under --onetime, and the same trees with the loop going on
InitTree == InitTrees(TRUE)

InitTreeLoop == InitTrees(FALSE)

\* ---- lists
ListNames == { Inbox, <<"a", ".">>, <<"a", "_">>, <<"a">> }
ListContents == { <<"a">>, <<"a", ".">> }

InitLists ==
    /\ \E inbox \in {"parallel", "serial", "none"}, onetime \in BOOLEAN :
          args = [DefaultArgs EXCEPT !.inbox = inbox, !.onetime = onetime]
    /\ projects \in {<<n1, n2>> : n1 \in ListNames, n2 \in ListNames}
    /\ \E project \in [1..ListItems -> 1..2] :
       \E parent \in Forests(ListItems, project) :
       \E order \in SiblingOrders(ListItems, project, parent) :
       \E content \in [1..ListItems -> ListContents] :
          data = [i \in 1..ListItems |->
                    [project_id |-> project[i], parent_id |-> parent[i],
                     child_order |-> order[i], content |-> content[i],
                     checked |-> 0, due |-> NoDue]]
    /\ store \in [1..ListItems -> BOOLEAN]
    /\ labels = store
    /\ InitLoop

\* ---- names
Suffixes == {".", "_"}
AllNames ==
    { Inbox, <<" ", "I", "n", "b", "o", "x", " ">>, <<"I", "n", "b", "o", "x", ".">>,
      <<"a", ".">>, <<"a", "_">>, <<" ", "a", ".", " ">>, <<"a">>, <<".">>,
      <<>>, <<" ">> }
AllContents ==
    { <<"a">>, <<"a", ".">>, <<" ", "a", "_", " ">>, <<"_">>, <<"*">>,
      <<" ", "*">>, <<>>, <<" ">> }
AllDues == { NoDue, <<6>>, <<7>> }

InitNames ==
    /\ args \in [inbox : {"parallel", "serial", "none"},
                 parallel_suffix : Suffixes, serial_suffix : Suffixes,
                 hide_future : {0, DefaultHideFuture}, onetime : {TRUE}]
    /\ projects \in {<<n>> : n \in AllNames}
    /\ \E content \in AllContents, due \in AllDues :
          data = <<[project_id |-> 1, parent_id |-> NoParent, child_order |-> 1,
                    content |-> content, checked |-> 0, due |-> due]>>
    /\ store \in [{1} -> BOOLEAN]
    /\ labels = store
    /\ InitLoop

Init == InitTree \/ InitLists \/ InitNames

\* ------------------------------------------------------------------ actions
ResetProject ==
    /\ items' = <<>>
    /\ idx' = 0
    /\ first_found' = FALSE
    /\ project_type' = "none"

\* every project is processed, whatever its type
processed_always(t) == TRUE

\* line 108: if project_type
processed(t) == t # "none"

\* the else block runs whether api.sync() raised or not
after_sync_always(ok) == "projects"

\* lines 101-105: the else block runs only when api.sync() raised nothing
after_sync(ok) == IF ok THEN "projects" ELSE "sleep"

\* lines 101-102: api.sync() returns; the snapshot is the server's state
SyncOk ==
    /\ pc = "sync"
    /\ labels' = store
    /\ synced' = "ok"
    /\ visited' = {}
    /\ commits' = 0
    /\ proj' = 1
    /\ pc' = after_sync(TRUE)
    /\ UNCHANGED <<args, projects, data, store, queue, items, idx, first_found,
                   project_type, cycle, passes>>

\* lines 103-104: api.sync() raises; the else block is skipped
SyncFail ==
    /\ pc = "sync"
    /\ synced' = "failed"
    /\ visited' = {}
    /\ commits' = 0
    /\ pc' = after_sync(FALSE)
    /\ UNCHANGED <<args, projects, data, store, labels, queue, proj, items, idx,
                   first_found, project_type, cycle, passes>>

\* lines 106-117: the next project of the for loop
BeginProject ==
    /\ pc = "projects"
    /\ proj \in DOMAIN projects
    /\ IF get_project_type_raises(projects[proj])
       THEN /\ pc' = "crashed"
            /\ UNCHANGED <<proj, items, idx, first_found, project_type>>
       ELSE LET t == get_project_type(projects[proj])
                its == project_items(proj)
            IN  IF processed(t) /\ its # <<>>
                THEN /\ items' = its
                     /\ idx' = 1
                     /\ first_found' = FALSE
                     /\ project_type' = t
                     /\ pc' = "items"
                     /\ proj' = proj
                ELSE /\ proj' = proj + 1
                     /\ pc' = "projects"
                     /\ ResetProject
    /\ UNCHANGED <<args, projects, data, store, labels, queue, cycle, synced,
                   visited, commits, passes>>

\* lines 119-164: one iteration of the loop over the items
VisitItem ==
    /\ pc = "items"
    /\ LET i == items[idx]
           st == [labels |-> labels, queue |-> queue]
       IN  /\ visited' = visited \cup {i}
           /\ IF visit_raises(i)
              THEN LET r == root_rule(st, i, project_type, first_found)
                   IN  /\ labels' = r.labels
                       /\ queue' = r.queue
                       /\ pc' = "crashed"
                       /\ UNCHANGED <<proj, items, idx, first_found, project_type>>
              ELSE LET r == visit(st, items, i, project_type, first_found)
                   IN  /\ labels' = r.labels
                       /\ queue' = r.queue
                       /\ IF idx < Len(items)
                          THEN /\ idx' = idx + 1
                               /\ first_found' =
                                    visit_first_found(i, project_type, first_found)
                               /\ UNCHANGED <<pc, proj, items, project_type>>
                          ELSE /\ pc' = "projects"
                               /\ proj' = proj + 1
                               /\ ResetProject
    /\ UNCHANGED <<args, projects, data, store, cycle, synced, commits, passes>>

PassDone == pc = "projects" /\ proj > Len(projects)

\* line 166: if len(api.queue), with the commit taken whatever the queue holds
has_changes_always(q) == TRUE

\* line 166: if len(api.queue)
has_changes(q) == Len(q) > 0

\* line 168 with a commit that sends nothing
commit_nothing(q) == store

\* line 168: the store after api.commit(): every queued item's update carries
\* the item's label list as it is when the queue is sent
commit(q) == [i \in Items |-> IF i \in Range(q) THEN labels[i] ELSE store[i]]

\* lines 166-168: api.commit() sends the queue and empties it
CommitOk ==
    /\ PassDone
    /\ has_changes(queue)
    /\ store' = commit(queue)
    /\ queue' = <<>>
    /\ commits' = commits + 1
    /\ passes' = passes + 1
    /\ pc' = "sleep"
    /\ UNCHANGED <<args, projects, data, labels, proj, items, idx, first_found,
                   project_type, cycle, synced, visited>>

\* line 168: api.commit() raises; nothing catches it
CommitFail ==
    /\ PassDone
    /\ has_changes(queue)
    /\ commits' = commits + 1
    /\ pc' = "crashed"
    /\ UNCHANGED <<args, projects, data, store, labels, queue, proj, items, idx,
                   first_found, project_type, cycle, synced, visited, passes>>

\* lines 169-170
SkipCommit ==
    /\ PassDone
    /\ ~has_changes(queue)
    /\ passes' = passes + 1
    /\ pc' = "sleep"
    /\ UNCHANGED <<args, projects, data, store, labels, queue, proj, items, idx,
                   first_found, project_type, cycle, synced, visited, commits>>

\* lines 173-174
Exit ==
    /\ pc = "sleep"
    /\ args.onetime
    /\ pc' = "exited"
    /\ UNCHANGED <<args, projects, data, store, labels, queue, proj, items, idx,
                   first_found, project_type, cycle, synced, visited, commits,
                   passes>>

\* lines 176-177 reached whatever args.onetime is
Sleep_despite_onetime ==
    /\ pc = "sleep"
    /\ cycle < MaxCycles
    /\ cycle' = cycle + 1
    /\ pc' = "sync"
    /\ UNCHANGED <<args, projects, data, store, labels, queue, proj, items, idx,
                   first_found, project_type, synced, visited, commits, passes>>

\* lines 176-177, then the next iteration of the while loop
Sleep ==
    /\ pc = "sleep"
    /\ ~args.onetime
    /\ cycle < MaxCycles
    /\ cycle' = cycle + 1
    /\ pc' = "sync"
    /\ UNCHANGED <<args, projects, data, store, labels, queue, proj, items, idx,
                   first_found, project_type, synced, visited, commits, passes>>

Next ==
    \/ SyncOk
    \/ SyncFail
    \/ BeginProject
    \/ VisitItem
    \/ CommitOk
    \/ CommitFail
    \/ SkipCommit
    \/ Exit
    \/ Sleep

Spec == Init /\ [][Next]_vars

\* The same program with the trees run without --onetime, for what is said
\* of the labels over several cycles.
InitRepeat == InitTreeLoop \/ InitLists \/ InitNames

SpecRepeat == InitRepeat /\ [][Next]_vars

\* ------------------------------------------------------- words of the claims
Projects == DOMAIN projects

ListType(p) ==
    IF get_project_type_raises(projects[p]) THEN "error"
    ELSE get_project_type(projects[p])

\* the tasks of a list and its roots, a task that is ignored counting as absent
ItemsOf(p) == {i \in Items : data[i].project_id = p /\ ~IsComment(i)}
RootsOf(p) == {i \in ItemsOf(p) : data[i].parent_id = NoParent}

\* a discipline is declared by the last character of the text
Declared(i) ==
    LET name == strip(data[i].content) IN
    /\ name # <<>>
    /\ LastChar(name) \in {args.parallel_suffix, args.serial_suffix}

ChildrenOf(i) == {c \in ItemsOf(data[i].project_id) : data[c].parent_id = i}

IsParent(i) == Declared(i) \/ ChildrenOf(i) # {}

\* the first root, in sibling order, that is not future-hidden
FirstVisibleRoot(p, r) ==
    /\ r \in RootsOf(p)
    /\ ~future_hidden(r)
    /\ \A q \in RootsOf(p) : ~future_hidden(q) => SortKey(r) <= SortKey(q)

\* ---------------------------------------------------------------------- C1
\* C1 as stated: after a full pass over a serial list with at least one root
\* that is not future-hidden, exactly one root holds the label, and it is the
\* root of the lowest sibling order.
C1_ExactlyLowestRoot ==
    PassDone =>
        \A p \in Projects :
            (ListType(p) = "serial" /\ \E r \in RootsOf(p) : ~future_hidden(r))
            => \E r \in RootsOf(p) :
                  /\ labels[r]
                  /\ \A q \in RootsOf(p) : labels[q] => q = r
                  /\ \A q \in RootsOf(p) : data[r].child_order <= data[q].child_order

\* C1 amended: after a full pass over a serial list, the only root that can
\* hold the label is the first root in sibling order that is not
\* future-hidden, and it holds it exactly when it is not a parent.
C1_FirstVisibleLeafRoot ==
    PassDone =>
        \A p \in Projects :
            ListType(p) = "serial" =>
                \A r \in RootsOf(p) :
                    labels[r] <=> (FirstVisibleRoot(p, r) /\ ~IsParent(r))

\* a hidden root comes first and loses the label, the next root gets it and
\* the last root loses it
C1_Witness ==
    /\ PassDone
    /\ \E p \in Projects :
          /\ ListType(p) = "serial"
          /\ \E h, r, q \in RootsOf(p) :
                /\ future_hidden(h) /\ store[h] /\ ~labels[h]
                /\ SortKey(h) < SortKey(r) /\ SortKey(r) < SortKey(q)
                /\ FirstVisibleRoot(p, r) /\ ~IsParent(r)
                /\ ~store[r] /\ labels[r]
                /\ store[q] /\ ~labels[q]

\* ---------------------------------------------------------------------- C2
\* C2 as stated: after a full pass over a parallel list, every root that is
\* not future-hidden holds the label.
C2_EveryVisibleRoot ==
    PassDone =>
        \A p \in Projects :
            ListType(p) = "parallel" =>
                \A r \in RootsOf(p) : ~future_hidden(r) => labels[r]

\* C2 amended: after a full pass over a parallel list, every root that is
\* neither future-hidden nor a parent holds the label.
C2_EveryVisibleLeafRoot ==
    PassDone =>
        \A p \in Projects :
            ListType(p) = "parallel" =>
                \A r \in RootsOf(p) :
                    (~future_hidden(r) /\ ~IsParent(r)) => labels[r]

\* three leaf roots of a parallel list, none labelled before, all labelled after
C2_Witness ==
    /\ PassDone
    /\ \E p \in Projects :
          /\ ListType(p) = "parallel"
          /\ Cardinality(RootsOf(p)) >= 3
          /\ \A r \in RootsOf(p) :
                ~future_hidden(r) /\ ~IsParent(r) /\ ~store[r] /\ labels[r]

Managed(p) == ListType(p) \in {"serial", "parallel"}

\* ---------------------------------------------------------------------- C3
\* C3: after a full pass over a managed list, no parent task (a task with a
\* declared discipline or with at least one child) holds the label.
C3_NoParentLabelled ==
    PassDone =>
        \A p \in Projects :
            Managed(p) => \A i \in ItemsOf(p) : IsParent(i) => ~labels[i]

\* ---------------------------------------------------------------------- C4
\* C4: after a full pass over a managed list, no future-hidden task holds the
\* label, root or child.
C4_NoHiddenLabelled ==
    PassDone =>
        \A p \in Projects :
            Managed(p) => \A i \in ItemsOf(p) : future_hidden(i) => ~labels[i]

\* ---------------------------------------------------------------------- C5
\* C5: a cycle that follows a cycle whose mutations were committed (or that
\* had none) queues nothing: the queue is empty at the end of its pass.
C5_SecondCycleQueuesNothing == (PassDone /\ passes >= 1) => queue = <<>>

\* ---------------------------------------------------------------------- C6
\* the labels after visiting the items of its in that order, from st on
RECURSIVE PassLabels(_, _, _, _, _)
PassLabels(st, its, k, ptype, ff) ==
    IF k > Len(its) THEN st.labels
    ELSE PassLabels(visit(st, its, its[k], ptype, ff), its, k + 1, ptype,
                    visit_first_found(its[k], ptype, ff))

Position(its, i) == CHOOSE k \in DOMAIN its : its[k] = i

\* the visit orders of the items of its that keep every two siblings in order
VisitOrders(its) ==
    {alt \in [DOMAIN its -> Range(its)] :
        /\ Range(alt) = Range(its)
        /\ \A a, b \in Range(its) :
              (data[a].parent_id = data[b].parent_id
                 /\ Position(its, a) < Position(its, b))
              => Position(alt, a) < Position(alt, b)}

\* C6: the labels at the end of a pass are those that any other visit order
\* of the same snapshot ends with.
C6_AnyVisitOrder ==
    PassDone =>
        \A p \in Projects :
            Managed(p) =>
                \A alt \in VisitOrders(project_items(p)) :
                    \A i \in ItemsOf(p) :
                        PassLabels([labels |-> store, queue |-> <<>>], alt, 1,
                                   ListType(p), FALSE)[i] = labels[i]

\* ---------------------------------------------------------------------- C7
\* the tasks of the lists that are unmanaged
UnmanagedItems == {i \in Items : ListType(data[i].project_id) = "none"}

\* C7: a task of an unmanaged list is never visited, no mutation is queued
\* for it and its label set never changes, in memory or in the store.
C7_UnmanagedUntouched ==
    /\ [](\A i \in UnmanagedItems :
             i \notin visited /\ i \notin Range(queue) /\ i \notin Range(items))
    /\ [][\A i \in UnmanagedItems :
             labels'[i] = labels[i] /\ store'[i] = store[i]]_vars

\* the second cycle has committed changes to a managed list while a labelled
\* task sits in an unmanaged list
C7_Witness ==
    /\ cycle = 2 /\ pc = "sleep" /\ commits = 1 /\ visited # {}
    /\ \E i \in UnmanagedItems : labels[i]

\* ---------------------------------------------------------------------- C8
Comments == {i \in Items : IsComment(i)}

\* the label is on i when lines 139-164 handle i in the visit about to happen
HeldAfterRootRule(i) ==
    root_rule([labels |-> labels, queue |-> queue], i, project_type,
              first_found).labels[i]

\* the first child of i, in sibling order, that is not completed
FirstOpenChild(i, c) ==
    /\ c \in ChildrenOf(i)
    /\ data[c].checked = 0
    /\ \A d \in ChildrenOf(i) : data[d].checked = 0 => SortKey(c) <= SortKey(d)

\* the visit of an item whose text does not make get_item_type raise
Visiting(i) == pc = "items" /\ i = items[idx] /\ ~visit_raises(i)

\* C8: a task whose text begins with '*' is never visited, never queued and
\* never changes its label set; it does not take the first slot of a serial
\* list or of a serial parent; and it does not make its parent a parent.
C8_CommentsAbsent ==
    /\ [](\A i \in Comments :
             i \notin visited /\ i \notin Range(queue) /\ i \notin Range(items))
    /\ [][\A i \in Comments : labels'[i] = labels[i] /\ store'[i] = store[i]]_vars
    /\ [](PassDone =>
            \A p \in Projects : \A r \in RootsOf(p) :
                (ListType(p) = "serial" /\ FirstVisibleRoot(p, r) /\ ~IsParent(r))
                => labels[r])
    /\ [][\A i \in Items :
            (Visiting(i) /\ ~future_hidden(i) /\ HeldAfterRootRule(i)) =>
                /\ (get_item_type(data[i].content) = "serial" =>
                       \A c \in ChildrenOf(i) : FirstOpenChild(i, c) => labels'[c])
                /\ (~IsParent(i) => labels'[i])]_vars

\* a serial list: an ignored root that keeps its label comes first, the leaf
\* root after it gets the label and keeps it although it has an ignored child
C8_Witness ==
    /\ PassDone
    /\ \E p \in Projects : \E c, k \in Comments : \E r \in RootsOf(p) :
          /\ ListType(p) = "serial"
          /\ data[c].project_id = p /\ data[c].parent_id = NoParent
          /\ SortKey(c) < SortKey(r)
          /\ store[c] /\ labels[c]
          /\ data[k].parent_id = r /\ data[k].project_id = p
          /\ ~store[r] /\ labels[r]

\* ---------------------------------------------------------------------- C9
\* C9: a failure of api.commit() does not end the process (the only crash
\* after a commit was requested is that of the commit itself).
C9_CommitFailureSurvived == pc = "crashed" => commits = 0

\* --------------------------------------------------------------------- C10
\* C10: in a cycle whose api.sync() failed no item is visited, no label set
\* changes, nothing is queued, no commit is requested, and the loop goes on
\* to its end: the sleep and the next cycle, or the exit of --onetime.
C10_FailedSyncSkipsCycle ==
    /\ [](synced = "failed" =>
            /\ pc \in {"sleep", "sync", "exited"}
            /\ visited = {} /\ items = <<>>
            /\ commits = 0 /\ queue = <<>>)
    /\ [][synced' = "failed" =>
            labels' = labels /\ store' = store /\ queue' = queue]_vars
    /\ [][(synced = "failed" /\ pc = "sleep") =>
            IF args.onetime THEN pc' = "exited"
            ELSE pc' = "sync" /\ cycle' = cycle + 1]_vars

\* the first cycle failed to sync and left a task that the rules would label
\* or unlabel as it was; the second cycle is about to sync
C10_Witness ==
    /\ synced = "failed" /\ pc = "sync" /\ cycle = 2
    /\ \E p \in Projects : \E a, b \in RootsOf(p) :
          /\ ListType(p) = "serial"
          /\ SortKey(a) < SortKey(b)
          /\ ~labels[a] /\ labels[b]


\* --------------------------------------------------------------------- C11
\* C11: a project whose trimmed name is empty and an item whose trimmed text
\* is empty are classified without an error: no step of the pass ends the
\* process (the only crash is that of a commit).
C11_PassNeverRaises == pc = "crashed" => commits > 0

\* --------------------------------------------------------------------- C12
\* C12: in a cycle the commit is requested at most once; it is requested only
\* when the pass over all projects is over, and then exactly when the queue
\* holds at least one update; the store's labels change only by that commit,
\* so they stay as they are during the pass.
C12_CommitOncePerCycle ==
    [][ /\ commits' <= 1
        /\ (commits' > commits => PassDone /\ queue # <<>>)
        /\ (PassDone => (commits' > commits <=> queue # <<>>))
        /\ (store' # store => PassDone /\ commits' > commits) ]_vars

C12_Witness ==
    /\ pc = "sleep"
    /\ cycle = 2
    /\ passes = 2
    /\ commits = 1
    /\ queue = <<>>
    /\ \E i \in Items : labels[i]

\* --------------------------------------------------------------------- C13
\* C13: when the pass is over the queue holds at most one update per item,
\* and it holds an update of an item only if the item's label differs from
\* the one it had at the sync.
C13_MinimalMutations ==
    PassDone =>
        \A i \in Items :
            /\ Cardinality({k \in DOMAIN queue : queue[k] = i}) <= 1
            /\ (i \in Range(queue) => labels[i] # store[i])

\* --------------------------------------------------------------------- C14
\* C14: a project whose trimmed name is 'Inbox' is handled in the configured
\* inbox mode whatever the suffixes are; any other project (of a non-empty
\* trimmed name) is handled as parallel when the name's last character is the
\* parallel suffix, else as serial when it is the serial suffix, else it is
\* unmanaged: none of its items is visited. The parallel suffix wins when the
\* two suffixes are the same character.
C14_ListClassification ==
    \A p \in Projects :
        LET name == strip(projects[p])
            claimed ==
                IF name = Inbox THEN args.inbox
                ELSE IF name[Len(name)] = args.parallel_suffix THEN "parallel"
                ELSE IF name[Len(name)] = args.serial_suffix THEN "serial"
                ELSE "none"
        IN  name # <<>> =>
              /\ (pc = "items" /\ proj = p) =>
                     project_type = claimed /\ claimed # "none"
              /\ (pc = "projects" /\ proj > p /\ claimed # "none") =>
                     ItemsOf(p) \subseteq visited
              /\ claimed = "none" => ItemsOf(p) \cap visited = {}

C14_Witness ==
    /\ pc = "items"
    /\ args.parallel_suffix = args.serial_suffix
    /\ project_type = "parallel"
    /\ projects[proj] # strip(projects[proj])
    /\ strip(projects[proj]) # Inbox

\* --------------------------------------------------------------------- C15
\* C15: with --onetime the process stays in its first iteration and, once
\* the iteration is over (the sync failed, or the pass and the commit
\* decision are done), it exits and takes no further step; without --onetime
\* the end of an iteration is always followed by the sleep and the next
\* iteration, never by the exit.
C15_OneShotStops ==
    /\ [][ /\ (args.onetime => cycle' = 1)
           /\ (pc = "sleep" /\ args.onetime => pc' = "exited")
           /\ (pc = "sleep" /\ ~args.onetime =>
                  pc' = "sync" /\ cycle' = cycle + 1)
           /\ (pc' = "exited" =>
                  args.onetime /\ pc = "sleep" /\ synced \in {"ok", "failed"})
           /\ pc # "exited" ]_vars
    /\ [](pc = "sleep" /\ ~args.onetime /\ cycle < MaxCycles => ENABLED Sleep)

C15_Witness ==
    /\ pc = "exited"
    /\ args.onetime
    /\ cycle = 1
    /\ synced = "ok"
    /\ passes = 1
    /\ visited # {}

\* --------------------------------------------------------------------- C16
\* C16: the visit of a task of serial type that holds the label when its
\* children are handled leaves the label on the first child, in sibling
\* order, that is not completed, and on no other child (a completed child
\* that held it loses it); the task itself does not hold it afterwards; when
\* every child is completed no child holds it. Children whose text begins
\* with '*' are not among the children.
C16_SerialParentCascade ==
    [][\A i \in Items :
          ( /\ Visiting(i)
            /\ ~future_hidden(i)
            /\ HeldAfterRootRule(i)
            /\ get_item_type(data[i].content) = "serial" ) =>
              /\ ~labels'[i]
              /\ \A c \in ChildrenOf(i) : labels'[c] <=> FirstOpenChild(i, c)
              /\ Cardinality({c \in ChildrenOf(i) : labels'[c]}) <= 1]_vars

\* a serial root of a parallel list, visited before its two children: the
\* completed first child has lost the label, the second child has got it
C16_Witness ==
    /\ PassDone
    /\ \E i \in Items : \E c, d \in ChildrenOf(i) :
          /\ data[i].parent_id = NoParent
          /\ ListType(data[i].project_id) = "parallel"
          /\ get_item_type(data[i].content) = "serial"
          /\ ~future_hidden(i)
          /\ SortKey(i) < SortKey(c) /\ SortKey(c) < SortKey(d)
          /\ data[c].checked = 1 /\ data[d].checked = 0
          /\ store[c] /\ ~labels[c]
          /\ ~store[d] /\ labels[d]
          /\ ~labels[i]

C18_Converges ==
    (PassDone /\ passes >= 1 /\ passes >= Cardinality(Items) - 1) =>
        labels = store

\* the third cycle of a tree ends with the labels of the second one, though
\* it queued updates again
C18_Witness ==
    /\ PassDone
    /\ cycle = 3
    /\ passes = 2
    /\ Cardinality(Items) = TreeItems
    /\ queue # <<>>
    /\ labels = store
    /\ \E i \in Items : labels[i]

\* --------------------------------------------------------------------- C19
\* the children, with neither a type nor children of their own, of an item
\* that the hide_future test skips
LeavesOfHidden ==
    {c \in Items :
        /\ data[c].parent_id # NoParent
        /\ future_hidden(data[c].parent_id)
        /\ ~IsParent(c)}

\* C19 as stated: the visit of a future-hidden task changes no label but its
\* own, and a leaf child of a future-hidden parent that held the label at
\* the sync holds it at the end of the pass, in every cycle.
C19_HiddenParentLeafKeeps ==
    /\ [][\A i \in Items :
             (Visiting(i) /\ future_hidden(i)) =>
                 \A j \in Items \ {i} : labels'[j] = labels[j]]_vars
    /\ [](PassDone => \A c \in LeavesOfHidden : store[c] => labels[c])

\* C19: the visit of a future-hidden task changes no label but its own, and
\* a leaf child of a future-hidden parent that is not future-hidden itself
\* and held the label at the sync holds it at the end of the pass, in every
\* cycle.
C19_HiddenParentVisibleLeafKeeps ==
    /\ [][\A i \in Items :
             (Visiting(i) /\ future_hidden(i)) =>
                 \A j \in Items \ {i} : labels'[j] = labels[j]]_vars
    /\ [](PassDone =>
            \A c \in LeavesOfHidden :
                (store[c] /\ ~future_hidden(c)) => labels[c])

\* a hidden root has lost its label in the first cycle; its leaf child,
\* visited after it, still holds the label at the end of the third cycle
C19_Witness ==
    /\ PassDone
    /\ cycle = 3
    /\ passes = 2
    /\ \E c \in LeavesOfHidden :
          /\ ~IsComment(c) /\ ~future_hidden(c)
          /\ data[data[c].parent_id].parent_id = NoParent
          /\ ~IsComment(data[c].parent_id)
          /\ SortKey(data[c].parent_id) < SortKey(c)
          /\ ~labels[data[c].parent_id]
          /\ store[c] /\ labels[c]
          /\ {c, data[c].parent_id} \subseteq visited

\* --------------------------------------------------------------------- C20
\* C20: after the pass over a serial project at most one root holds the
\* label; a root that is future-hidden, or that comes after the first root
\* that is not, does not hold it; and no child of a root that is not hidden
\* and comes after the first such root holds it. Items whose text begins
\* with '*' are neither roots nor children here.
C20_SerialListOneRoot ==
    PassDone =>
        \A p \in Projects :
            ListType(p) = "serial" =>
                /\ Cardinality({r \in RootsOf(p) : labels[r]}) <= 1
                /\ \A r \in RootsOf(p) :
                      LET later == \E q \in RootsOf(p) :
                                      ~future_hidden(q) /\ SortKey(q) < SortKey(r)
                      IN  /\ (future_hidden(r) \/ later) => ~labels[r]
                          /\ (~future_hidden(r) /\ later) =>
                                 \A c \in ChildrenOf(r) : ~labels[c]

\* the second root of a serial list and its child both held the label at the
\* sync and have lost it
C20_Witness ==
    /\ PassDone
    /\ \E p \in Projects : \E q, r \in RootsOf(p) : \E c \in ChildrenOf(r) :
          /\ ListType(p) = "serial"
          /\ ~future_hidden(q) /\ ~future_hidden(r)
          /\ SortKey(q) < SortKey(r)
          /\ SortKey(r) < SortKey(c)
          /\ store[r] /\ ~labels[r]
          /\ store[c] /\ ~labels[c]
          /\ {q, r, c} \subseteq visited

====
